---- MODULE Spec2Model ----
(***************************************************************************)
(* Model of the Sushi RAG MCP server (src/mcp/server.py): the three tools  *)
(* sushi_rag_query, sushi_semantic_search and sushi_list_topics, the       *)
(* knowledge-base/stats resource, the lifespan context and the error       *)
(* classifier.                                                             *)
(*                                                                         *)
(* Text is modelled as a sequence of one-character strings.  A returned    *)
(* string is a sequence of pieces whose concatenation is the string: the   *)
(* literal parts of an f-string, the interpolated values, and the tokens   *)
(* json.dumps emits.                                                       *)
(***************************************************************************)
EXTENDS Integers, Sequences, FiniteSets, TLC

VARIABLES
    store,             \* the Chroma collection behind the vector store
    lifespan_context,  \* what app_lifespan yielded
    chains,            \* every pipeline _build_chain was asked for, in order
    calls,             \* the tool invocations, one record per request
    err,               \* the exception handed to _handle_error (classifier runs)
    classified         \* what _handle_error returned for err

vars == <<store, lifespan_context, chains, calls, err, classified>>

-----------------------------------------------------------------------------
(* Bounds of the model *)

MaxCalls == 2
MaxFrags == 2

-----------------------------------------------------------------------------
(* Text *)

UpperCase == <<"A","B","C","D","E","F","G","H","I","J","K","L","M",
               "N","O","P","Q","R","S","T","U","V","W","X","Y","Z">>
LowerCase == <<"a","b","c","d","e","f","g","h","i","j","k","l","m",
               "n","o","p","q","r","s","t","u","v","w","x","y","z">>

\* The characters the model uses, in code-point order.
CodeOrder == <<" ">> \o UpperCase \o <<"_">> \o LowerCase

Ord(c) == CHOOSE i \in 1..Len(CodeOrder) : CodeOrder[i] = c

\* The lower-case letter of each upper-case letter.
ToLower ==
    [c \in {UpperCase[i] : i \in 1..Len(UpperCase)} |->
        LowerCase[CHOOSE i \in 1..Len(UpperCase) : UpperCase[i] = c]]

\* str.lower()
Lower(s) == [i \in 1..Len(s) |-> IF s[i] \in DOMAIN ToLower THEN ToLower[s[i]] ELSE s[i]]

\* sub in s
Contains(sub, s) ==
    \E i \in 0..(Len(s) - Len(sub)) : SubSeq(s, i + 1, i + Len(sub)) = sub

\* Pieces of a returned string.
Lit(s) == [piece |-> "lit", lit |-> s]
Txt(cs) == [piece |-> "text", chars |-> cs]
Num(n) == [piece |-> "num", num |-> n]

-----------------------------------------------------------------------------
(* Constants of the server *)

CHROMA_COLLECTION == <<"s","u","s","h","i","_","m","e","n","u">>
DEFAULT_K_DOCS == 4
MAX_K_DOCS == 10

OPENAI_API_KEY == <<"O","P","E","N","A","I","_","A","P","I","_","K","E","Y">>
DoesNotExist == <<"d","o","e","s"," ","n","o","t"," ","e","x","i","s","t">>
NoSuch == <<"n","o"," ","s","u","c","h">>

-----------------------------------------------------------------------------
(* Error classifier *)

\* An exception: type(e).__name__ and str(e).
Exc(kind, msg) == [kind |-> kind, msg |-> msg]

CredentialMessage ==
    <<Lit("Error: OPENAI_API_KEY is not set. Export it before starting the server.")>>

MissingCollectionMessage ==
    <<Lit("Error: ChromaDB collection not found. Run the ingestion script to populate '"),
      Txt(CHROMA_COLLECTION), Lit("' first.")>>

GenericMessage(e) == <<Lit("Error: "), Lit(e.kind), Lit(": "), Txt(e.msg)>>

_handle_error_swapped(e) ==
    LET text == e.msg
        lowered == Lower(e.msg)
    IN  IF Contains(DoesNotExist, lowered) \/ Contains(NoSuch, lowered)
        THEN MissingCollectionMessage
        ELSE IF Contains(OPENAI_API_KEY, text)
        THEN CredentialMessage
        ELSE GenericMessage(e)

_handle_error(e) ==
    LET text == e.msg
        lowered == Lower(e.msg)
    IN  IF Contains(OPENAI_API_KEY, text)
        THEN CredentialMessage
        ELSE IF Contains(DoesNotExist, lowered) \/ Contains(NoSuch, lowered)
        THEN MissingCollectionMessage
        ELSE GenericMessage(e)

-----------------------------------------------------------------------------
(* Values *)

\* Python's None, and an int, as a field that may hold either.
NoneVal == [none |-> TRUE]
K(n) == [int |-> n]
IsNone(v) == "none" \in DOMAIN v

\* Scores and thresholds are counted in units of 10^-5: 1.0 is ScoreUnit.
ScoreUnit == 10 * 10 * 10 * 10 * 10

\* round(score, ndigits) for a score in units of 10^-5, ties to even.
Round(score, unit) ==
    LET lo == (score \div unit) * unit
        r == score - lo
    IN  IF 2 * r < unit THEN lo
        ELSE IF 2 * r > unit THEN lo + unit
        ELSE IF (lo \div unit) % 2 = 0 THEN lo ELSE lo + unit

\* dict.get(key, default)
Get(meta, key, default) == IF key \in DOMAIN meta THEN meta[key] ELSE default

\* Python truth value of a metadata value or None.
Truthy(v) == ~IsNone(v) /\ v.chars # <<>>

\* A metadata value: a string.
S(cs) == [chars |-> cs]

-----------------------------------------------------------------------------
(* The knowledge base *)

TruncLen == 300

Pad(n, c) == [i \in 1..n |-> c]

Nigiri == <<"n","i","g","i","r","i">>
Rice == <<"r","i","c","e">>
LongContent == Nigiri \o Pad(TruncLen - Len(Nigiri), "a") \o <<"z">>
ExactContent == Rice \o Pad(TruncLen - Len(Rice), "b")
LongerContent == Rice \o Pad(TruncLen, "c")

\* A stored chunk: content, metadata (None when it was stored without any) and the
\* relevance the store reports for the query.
Chunk(content, meta, score) ==
    [page_content |-> content, metadata |-> meta, score |-> score]

EmptyMeta == [x \in {} |-> S(<<>>)]

\* The collection, in the store's ranking order.
PopulatedStore ==
    <<Chunk(LongContent, [source |-> S(<<"b">>), title |-> S(<<"t">>)], 9 * (ScoreUnit \div 10)),
      Chunk(Rice, [title |-> S(<<"B">>)], ScoreUnit \div 2),
      Chunk(ExactContent, [source |-> S(<<>>), topic |-> S(<<"a","b">>)], ScoreUnit \div 2),
      Chunk(LongerContent, [topic |-> S(<<"b">>)], 12345),
      Chunk(Nigiri, EmptyMeta, 0)>>

EmptyStore == <<>>

BareStore == <<Chunk(Rice, NoneVal, ScoreUnit \div 2)>>

Stores == {PopulatedStore, EmptyStore, BareStore}

\* langchain's Document: metadata is never None.
Document(chunk) ==
    [page_content |-> chunk.page_content,
     metadata |-> IF IsNone(chunk.metadata) THEN EmptyMeta ELSE chunk.metadata]

\* The store's answer to a similarity search of width k: the k best chunks.
TopK(k) == SubSeq(store, 1, IF k < Len(store) THEN k ELSE Len(store))

-----------------------------------------------------------------------------
(* json.dumps and json.loads *)

\* JSON values.
JStr(cs) == [j |-> "string", chars |-> cs]
JNum(n) == [j |-> "number", num |-> n]
JArr(items) == [j |-> "array", items |-> items]
JObj(keys, vals) == [j |-> "object", keys |-> keys, vals |-> vals]

\* JSON tokens, as pieces of a string.  The white space indent=2 adds between
\* tokens is insignificant and left out.  A key is a literal of the program or
\* a metadata field name.
Punct(p) == [piece |-> "json", tok |-> p]
StrTok(cs) == [piece |-> "string", chars |-> cs]
KeyTok(k) == [piece |-> "string", lit |-> k]
NumTok(n) == [piece |-> "number", num |-> n]

RECURSIVE Dumps(_), DumpItems(_, _), DumpMembers(_, _, _)

Dumps(v) ==
    CASE v.j = "string" -> <<StrTok(v.chars)>>
      [] v.j = "number" -> <<NumTok(v.num)>>
      [] v.j = "array" -> <<Punct("[")>> \o DumpItems(v.items, 1) \o <<Punct("]")>>
      [] v.j = "object" ->
            <<Punct("{")>> \o DumpMembers(v.keys, v.vals, 1) \o <<Punct("}")>>

DumpItems(items, i) ==
    IF i > Len(items) THEN <<>>
    ELSE Dumps(items[i])
         \o (IF i < Len(items) THEN <<Punct(",")>> ELSE <<>>)
         \o DumpItems(items, i + 1)

DumpMembers(keys, vals, i) ==
    IF i > Len(keys) THEN <<>>
    ELSE <<KeyTok(keys[i]), Punct(":")>> \o Dumps(vals[i])
         \o (IF i < Len(keys) THEN <<Punct(",")>> ELSE <<>>)
         \o DumpMembers(keys, vals, i + 1)

\* A parse: whether it succeeded, the value read and the position after it.
ParseFail == [ok |-> FALSE, val |-> JNum(0), next |-> 0]
Parsed(v, n) == [ok |-> TRUE, val |-> v, next |-> n]

IsTok(t, i, p) == i <= Len(t) /\ t[i] = Punct(p)

RECURSIVE ParseValue(_, _), ParseItems(_, _, _), ParseMembers(_, _, _, _)

ParseValue(t, i) ==
    IF i > Len(t) THEN ParseFail
    ELSE IF t[i].piece = "string" /\ "chars" \in DOMAIN t[i]
    THEN Parsed(JStr(t[i].chars), i + 1)
    ELSE IF t[i].piece = "number" THEN Parsed(JNum(t[i].num), i + 1)
    ELSE IF IsTok(t, i, "[")
    THEN IF IsTok(t, i + 1, "]") THEN Parsed(JArr(<<>>), i + 2)
         ELSE ParseItems(t, i + 1, <<>>)
    ELSE IF IsTok(t, i, "{")
    THEN IF IsTok(t, i + 1, "}") THEN Parsed(JObj(<<>>, <<>>), i + 2)
         ELSE ParseMembers(t, i + 1, <<>>, <<>>)
    ELSE ParseFail

ParseItems(t, i, acc) ==
    LET r == ParseValue(t, i) IN
    IF ~r.ok THEN ParseFail
    ELSE IF IsTok(t, r.next, ",") THEN ParseItems(t, r.next + 1, Append(acc, r.val))
    ELSE IF IsTok(t, r.next, "]") THEN Parsed(JArr(Append(acc, r.val)), r.next + 1)
    ELSE ParseFail

ParseMembers(t, i, keys, vals) ==
    IF ~(i <= Len(t) /\ t[i].piece = "string" /\ "lit" \in DOMAIN t[i]
         /\ IsTok(t, i + 1, ":"))
    THEN ParseFail
    ELSE LET r == ParseValue(t, i + 2) IN
         IF ~r.ok THEN ParseFail
         ELSE IF IsTok(t, r.next, ",")
         THEN ParseMembers(t, r.next + 1, Append(keys, t[i].lit), Append(vals, r.val))
         ELSE IF IsTok(t, r.next, "}")
         THEN Parsed(JObj(Append(keys, t[i].lit), Append(vals, r.val)), r.next + 1)
         ELSE ParseFail

\* json.loads: the whole string is one JSON value.
Loads(t) ==
    LET r == ParseValue(t, 1) IN
    IF r.ok /\ r.next = Len(t) + 1 THEN r ELSE ParseFail

\* A metadata mapping as a JSON object, its keys in a fixed order.
MetaKeys == <<"source", "title", "topic">>
MetaJson(meta) ==
    LET keys == SelectSeq(MetaKeys, LAMBDA k : k \in DOMAIN meta)
    IN  JObj(keys, [i \in 1..Len(keys) |-> JStr(meta[keys[i]].chars)])

-----------------------------------------------------------------------------
(* Schema Layer *)

QuestionMinLength == 3
QuestionMaxLength == 500
QueryMinLength == 2
QueryMaxLength == 300
MinCount == 1
MaxSearchK == 10
DefaultSearchK == 5
MaxLimit == 100
DefaultLimit == 20

ResponseFormat == {"markdown", "json"}

\* Raw argument values besides None and ints.
Bool(b) == [bool |-> b]
Str(s) == [str |-> s]
Float(x) == [float |-> x]

Min(A) == CHOOSE x \in A : \A y \in A : x <= y
Max(A) == CHOOSE x \in A : \A y \in A : x >= y

\* str_strip_whitespace=True
Strip(cs) ==
    LET kept == {i \in 1..Len(cs) : cs[i] # " "}
    IN  IF kept = {} THEN <<>> ELSE SubSeq(cs, Min(kept), Max(kept))

\* Optional[int] with ge and le: None passes, an int must be within the bounds.
ValidCount(v, lo, hi) == IsNone(v) \/ (v.int >= lo /\ v.int <= hi)

\* Optional[float] with ge=0.0 and le=1.0
ValidThreshold(v) == IsNone(v) \/ (v.float >= 0 /\ v.float <= ScoreUnit)

ValidText(v, lo, hi) == Len(Strip(v.chars)) >= lo /\ Len(Strip(v.chars)) <= hi

ValidFormat(v) == v.str \in ResponseFormat

SushiQueryInputValid(args) ==
    /\ DOMAIN args \subseteq {"question", "k_docs", "include_sources", "response_format"}
    /\ "question" \in DOMAIN args
    /\ ValidText(args.question, QuestionMinLength, QuestionMaxLength)
    /\ "k_docs" \in DOMAIN args => ValidCount(args.k_docs, MinCount, MAX_K_DOCS)
    /\ "response_format" \in DOMAIN args => ValidFormat(args.response_format)

SushiQueryInput(args) ==
    [question |-> Strip(args.question.chars),
     k_docs |-> Get(args, "k_docs", K(DEFAULT_K_DOCS)),
     include_sources |-> Get(args, "include_sources", Bool(TRUE)),
     response_format |-> Get(args, "response_format", Str("markdown")).str]

SushiSearchInputValid(args) ==
    /\ DOMAIN args \subseteq {"query", "k", "score_threshold", "response_format"}
    /\ "query" \in DOMAIN args
    /\ ValidText(args.query, QueryMinLength, QueryMaxLength)
    /\ "k" \in DOMAIN args => ValidCount(args.k, MinCount, MaxSearchK)
    /\ "score_threshold" \in DOMAIN args => ValidThreshold(args.score_threshold)
    /\ "response_format" \in DOMAIN args => ValidFormat(args.response_format)

SushiSearchInput(args) ==
    [query |-> Strip(args.query.chars),
     k |-> Get(args, "k", K(DefaultSearchK)),
     score_threshold |-> Get(args, "score_threshold", NoneVal),
     response_format |-> Get(args, "response_format", Str("markdown")).str]

ListTopicsInputValid(args) ==
    /\ DOMAIN args \subseteq {"limit"}
    /\ "limit" \in DOMAIN args => ValidCount(args.limit, MinCount, MaxLimit)

ListTopicsInput(args) == [limit |-> Get(args, "limit", K(DefaultLimit))]

-----------------------------------------------------------------------------
(* The requests the clients send *)

PaddedQuestion == S(<<" ">> \o Nigiri \o <<" ">>)

QueryRequests ==
    { [question |-> PaddedQuestion],
      [question |-> S(Nigiri), k_docs |-> K(3), response_format |-> Str("json")],
      [question |-> S(Nigiri), k_docs |-> NoneVal, include_sources |-> Bool(FALSE),
       response_format |-> Str("json")],
      [question |-> S(Nigiri), k_docs |-> K(MinCount - 1)],
      [question |-> S(Nigiri), k_docs |-> K(MAX_K_DOCS + 1)],
      [question |-> S(<<" ", "n", "o", " ">>)] }

SearchRequests ==
    { [query |-> S(Nigiri)],
      [query |-> S(Nigiri), k |-> K(2), score_threshold |-> Float(ScoreUnit \div 2),
       response_format |-> Str("json")],
      [query |-> S(Nigiri), k |-> K(2), score_threshold |-> Float(ScoreUnit),
       response_format |-> Str("json")],
      [query |-> S(Nigiri), k |-> K(2), score_threshold |-> Float(9 * (ScoreUnit \div 10))],
      [query |-> S(Nigiri), k |-> K(2), score_threshold |-> Float(ScoreUnit)],
      [query |-> S(Nigiri), k |-> K(MaxSearchK + 1)],
      [query |-> S(Nigiri), score_threshold |-> Float(ScoreUnit + 1)],
      [query |-> S(Nigiri), top_k |-> K(2)] }

TopicsRequests ==
    { [x \in {} |-> NoneVal],
      [limit |-> K(1)],
      [limit |-> K(2)],
      [limit |-> K(MaxLimit)],
      [limit |-> K(MinCount - 1)],
      [limit |-> K(MaxLimit + 1)] }

-----------------------------------------------------------------------------
(* What the collaborators can do *)

\* The exceptions the collaborators raise: the transport when a progress
\* notification cannot be sent, the vector store when the collection is gone or
\* the width is no int, the language model client without its credential.
ProgressError == Exc("BrokenResourceError", <<>>)
RetrievalError ==
    Exc("NotFoundError", <<"C","o","l","l","e","c","t","i","o","n"," ">> \o CHROMA_COLLECTION \o <<" ">> \o DoesNotExist)
WidthError ==
    Exc("ValueError", <<"E","x","p","e","c","t","e","d"," ","r","e","q","u","e","s","t","e","d"," ","n","u","m","b","e","r"," ","o","f"," ","r","e","s","u","l","t","s"," ","t","o"," ","b","e"," ","a"," ","i","n","t",","," ","g","o","t"," ","N","o","n","e">>)
GenerationError == Exc("OpenAIError", <<"s","e","t"," ","t","h","e"," ">> \o OPENAI_API_KEY \o <<" ","e","n","v","i","r","o","n","m","e","n","t"," ","v","a","r","i","a","b","l","e">>)
NoneTypeError == Exc("AttributeError", <<"'","N","o","n","e","T","y","p","e","'"," ","o","b","j","e","c","t"," ","h","a","s"," ","n","o"," ","a","t","t","r","i","b","u","t","e"," ","'","g","e","t","'">>)
NameError == Exc("NameError", <<"n","a","m","e"," ","'","c","h","r","o","m","a","d","b","'"," ","i","s"," ","n","o","t"," ","d","e","f","i","n","e","d">>)
NoException == Exc("", <<>>)

\* An outcome of a call on a collaborator: a value, or an exception.
Returns(v) == [ok |-> TRUE, value |-> v, exc |-> NoException]
Raises(e) == [ok |-> FALSE, value |-> <<>>, exc |-> e]

\* await ctx.report_progress(...)
ReportProgress == {Returns(<<>>), Raises(ProgressError)}

\* vectorstore.similarity_search(question, k=k), also as the chain's retriever runs it
SimilaritySearch(k) ==
    IF IsNone(k) THEN {Raises(WidthError), Raises(RetrievalError)}
    ELSE {Returns([i \in 1..Len(TopK(k.int)) |-> Document(TopK(k.int)[i])]),
          Raises(RetrievalError)}

\* vectorstore.similarity_search_with_relevance_scores(query, k=k)
SimilaritySearchWithRelevanceScores(k) ==
    IF IsNone(k) THEN {Raises(WidthError), Raises(RetrievalError)}
    ELSE {Returns([i \in 1..Len(TopK(k.int)) |->
                      [doc |-> Document(TopK(k.int)[i]), score |-> TopK(k.int)[i].score]]),
          Raises(RetrievalError)}

\* The language model's answer to the prompt.
AnswerText == <<"N","i","g","i","r","i"," ","i","s"," ","r","i","c","e"," ","t","o","p","p","e","d"," ","w","i","t","h"," ","f","i","s","h">>
Generate == {Returns(AnswerText), Raises(GenerationError)}

\* collection.get(include=["metadatas"])
CollectionGet ==
    {Returns([i \in 1..Len(store) |-> store[i].metadata]), Raises(RetrievalError)}

-----------------------------------------------------------------------------
(* Shared helpers *)

\* A pipeline: the retriever's store and width, and the model it prompts.
_build_chain(vectorstore, llm, k) == [vectorstore |-> vectorstore, llm |-> llm, k |-> k]

\* Characters a string of the module cannot hold.
Ellipsis == Lit("[U+2026]")
Backtick == Lit("[U+0060]")

\* s[:n]
Prefix(s, n) == SubSeq(s, 1, IF n < Len(s) THEN n ELSE Len(s))

RECURSIVE Join(_, _)
\* sep.join(lines)
Join(lines, sep) ==
    IF lines = <<>> THEN <<>>
    ELSE IF Len(lines) = 1 THEN lines[1]
    ELSE lines[1] \o <<sep>> \o Join(Tail(lines), sep)

\* meta.get("source", meta.get("title", fallback))
SourceLabel(meta, fallback) ==
    IF "source" \in DOMAIN meta THEN <<Txt(meta.source.chars)>>
    ELSE IF "title" \in DOMAIN meta THEN <<Txt(meta.title.chars)>>
    ELSE fallback

SourceJson(doc) ==
    JObj(<<"content", "metadata">>, <<JStr(doc.page_content), MetaJson(doc.metadata)>>)

SourceLineUncut(i, doc) ==
    <<Lit("\n**"), Num(i), Lit(". ")>>
    \o SourceLabel(doc.metadata, <<Lit("Document "), Num(i)>>)
    \o <<Lit("**\n"), Txt(doc.page_content), Ellipsis>>

SourceLine(i, doc) ==
    <<Lit("\n**"), Num(i), Lit(". ")>>
    \o SourceLabel(doc.metadata, <<Lit("Document "), Num(i)>>)
    \o <<Lit("**\n"), Txt(Prefix(doc.page_content, TruncLen)), Ellipsis>>

_format_sources(source_docs, fmt) ==
    IF source_docs = <<>> THEN <<>>
    ELSE IF fmt = "json"
    THEN Dumps(JArr([i \in 1..Len(source_docs) |-> SourceJson(source_docs[i])]))
    ELSE Join(<<<<Lit("\n\n---\n**Sources retrieved:**")>>>>
              \o [i \in 1..Len(source_docs) |-> SourceLine(i, source_docs[i])],
              Lit("\n"))

-----------------------------------------------------------------------------
(* Lifespan *)

NoArgs == [x \in {} |-> NoneVal]

\* A request slot nothing has arrived on yet.
Idle ==
    [tool |-> "", args |-> NoArgs, params |-> NoArgs, pc |-> "idle",
     outcome |-> "pending", chain |-> 0, built |-> 0, invoked |-> 0,
     retrievals |-> <<>>, answer |-> <<>>, docs |-> <<>>,
     result |-> <<>>, caught |-> NoException, raised |-> NoException]

\* app_lifespan up to its yield: the shared handles and the default pipeline.
Init ==
    /\ store \in Stores
    /\ chains = <<_build_chain("vectorstore", "llm", K(DEFAULT_K_DOCS))>>
    /\ lifespan_context = [vectorstore |-> "vectorstore", qa_chain |-> 1, llm |-> "llm"]
    /\ calls = [c \in 1..MaxCalls |-> Idle]
    /\ err = NoException
    /\ classified = <<>>

\* Requests are numbered in their order of arrival.
Arrives(c) ==
    /\ calls[c].pc = "idle"
    /\ IF c = 1 THEN TRUE ELSE calls[c - 1].pc # "idle"

Rejected(tool, args) ==
    [Idle EXCEPT !.tool = tool, !.args = args, !.pc = "done", !.outcome = "rejected"]

Accepted(tool, args, params, pc) ==
    [Idle EXCEPT !.tool = tool, !.args = args, !.params = params, !.pc = pc]

\* The tool's frame is gone once it returns or raises: its locals with it.
Leave(call) == [call EXCEPT !.pc = "done", !.chain = 0, !.answer = <<>>, !.docs = <<>>]

\* return value
Return(call, text) == [Leave(call) EXCEPT !.outcome = "returned", !.result = text]

\* except Exception as e: ctx.error(...); return _handle_error(e)
Except(call, e) == [Return(call, _handle_error(e)) EXCEPT !.caught = e]

\* An exception no handler of the tool catches.
Escape(call, e) == [Leave(call) EXCEPT !.outcome = "raised", !.raised = e]

-----------------------------------------------------------------------------
(* Tool: sushi_rag_query *)

QueryJsonWithoutSources(p, answer, source_docs) ==
    Dumps(JObj(<<"question", "answer">>, <<JStr(p.question), JStr(answer)>>))

QueryJson(p, answer, source_docs) ==
    Dumps(JObj(<<"question", "answer", "sources">>,
               <<JStr(p.question), JStr(answer),
                 JArr(IF p.include_sources = Bool(TRUE)
                      THEN [i \in 1..Len(source_docs) |-> SourceJson(source_docs[i])]
                      ELSE <<>>)>>))

QueryMarkdown(p, answer, source_docs) ==
    <<Lit("**Answer:**\n\n"), Txt(answer)>>
    \o (IF p.include_sources = Bool(TRUE)
        THEN _format_sources(source_docs, p.response_format)
        ELSE <<>>)

\* The request arrives and the Schema Layer validates it; a valid one starts the
\* tool, which suspends on its first progress notification.
QueryStart(c) ==
    /\ Arrives(c)
    /\ \E args \in QueryRequests :
          calls' = [calls EXCEPT ![c] =
              IF SushiQueryInputValid(args)
              THEN Accepted("sushi_rag_query", args, SushiQueryInput(args), "progress_0_1")
              ELSE Rejected("sushi_rag_query", args)]
    /\ UNCHANGED <<store, lifespan_context, chains, err, classified>>

\* if params.k_docs != DEFAULT_K_DOCS
SelectChainBuilds(p) == p.k_docs # K(DEFAULT_K_DOCS)

\* The first notification is through: the tool picks its pipeline, building one when
\* the width is not the default, and suspends on the second notification.
QueryBuild(c) ==
    /\ calls[c].tool = "sushi_rag_query" /\ calls[c].pc = "progress_0_1"
    /\ \E sent \in ReportProgress :
          IF ~sent.ok
          THEN /\ calls' = [calls EXCEPT ![c] = Escape(@, sent.exc)]
               /\ UNCHANGED chains
          ELSE LET p == calls[c].params IN
               IF SelectChainBuilds(p)
               THEN /\ chains' = Append(chains,
                          _build_chain(lifespan_context.vectorstore,
                                       lifespan_context.llm, p.k_docs))
                    /\ calls' = [calls EXCEPT ![c] =
                          [@ EXCEPT !.chain = Len(chains) + 1, !.built = @ + 1,
                                    !.pc = "progress_0_4"]]
               ELSE /\ UNCHANGED chains
                    /\ calls' = [calls EXCEPT ![c] =
                          [@ EXCEPT !.chain = lifespan_context.qa_chain,
                                    !.pc = "progress_0_4"]]
    /\ UNCHANGED <<store, lifespan_context, err, classified>>

\* The second notification is through (or failed): the tool invokes its pipeline.
QueryGenerate(c) ==
    /\ calls[c].tool = "sushi_rag_query" /\ calls[c].pc = "progress_0_4"
    /\ \E sent \in ReportProgress :
          calls' = [calls EXCEPT ![c] =
              IF ~sent.ok THEN Except(@, sent.exc)
              ELSE [@ EXCEPT !.invoked = calls[c].chain, !.pc = "ainvoke"]]
    /\ UNCHANGED <<store, lifespan_context, chains, err, classified>>

\* The pipeline has retrieved and generated (or failed): the tool fetches the
\* sources with a search of its own and suspends on the last notification.
QueryFetchSources(c) ==
    /\ calls[c].tool = "sushi_rag_query" /\ calls[c].pc = "ainvoke"
    /\ LET p == calls[c].params
           k == chains[calls[c].invoked].k
       IN  \E context \in SimilaritySearch(k), answer \in Generate,
              found \in SimilaritySearch(p.k_docs) :
             calls' = [calls EXCEPT ![c] =
                 IF ~context.ok
                 THEN Except([@ EXCEPT !.retrievals = Append(@, k)], context.exc)
                 ELSE IF ~answer.ok
                 THEN Except([@ EXCEPT !.retrievals = Append(@, k)], answer.exc)
                 ELSE IF p.include_sources # Bool(TRUE)
                 THEN [@ EXCEPT !.retrievals = Append(@, k), !.answer = answer.value,
                                !.pc = "progress_1_0"]
                 ELSE IF ~found.ok
                 THEN Except([@ EXCEPT !.retrievals = <<k, p.k_docs>>,
                                       !.answer = answer.value], found.exc)
                 ELSE [@ EXCEPT !.retrievals = <<k, p.k_docs>>, !.answer = answer.value,
                                !.docs = found.value, !.pc = "progress_1_0"]]
    /\ UNCHANGED <<store, lifespan_context, chains, err, classified>>

\* The last notification is through (or failed): the tool formats and returns.
QueryReturn(c) ==
    /\ calls[c].tool = "sushi_rag_query" /\ calls[c].pc = "progress_1_0"
    /\ \E sent \in ReportProgress :
          calls' = [calls EXCEPT ![c] =
              IF ~sent.ok THEN Except(@, sent.exc)
              ELSE IF @.params.response_format = "json"
              THEN Return(@, QueryJson(@.params, @.answer, @.docs))
              ELSE Return(@, QueryMarkdown(@.params, @.answer, @.docs))]
    /\ UNCHANGED <<store, lifespan_context, chains, err, classified>>

-----------------------------------------------------------------------------
(* Tool: sushi_semantic_search *)

NoResults(query) == <<Lit("No results found for query: '"), Txt(query), Lit("'")>>

\* A score as round(score, 4) and as {score:.3f} show it.
Score(n) == [piece |-> "score", num |-> n]

FilterAbove(docs_and_scores, threshold) ==
    IF IsNone(threshold) THEN docs_and_scores
    ELSE SelectSeq(docs_and_scores, LAMBDA ds : ds.score > threshold.float)

\* if params.score_threshold is not None: keep score >= threshold
Filter(docs_and_scores, threshold) ==
    IF IsNone(threshold) THEN docs_and_scores
    ELSE SelectSeq(docs_and_scores, LAMBDA ds : ds.score >= threshold.float)

SearchJson(p, docs_and_scores) ==
    Dumps(JArr([i \in 1..Len(docs_and_scores) |->
        JObj(<<"rank", "score", "content", "metadata">>,
             <<JNum(i), JNum(Round(docs_and_scores[i].score, 10)),
               JStr(docs_and_scores[i].doc.page_content),
               MetaJson(docs_and_scores[i].doc.metadata)>>)]))

SearchLine(i, ds) ==
    <<Lit("**"), Num(i), Lit(". ")>>
    \o SourceLabel(ds.doc.metadata, <<Lit("Unknown source")>>)
    \o <<Lit("** _(score: "), Score(Round(ds.score, 100)), Lit(")_\n"),
         Txt(ds.doc.page_content), Lit("\n")>>

SearchMarkdown(p, docs_and_scores) ==
    Join(<<<<Lit("**Semantic search results for:** "), Backtick, Txt(p.query), Backtick,
             Lit("\n")>>>>
         \o [i \in 1..Len(docs_and_scores) |-> SearchLine(i, docs_and_scores[i])],
         Lit("\n"))

SearchResultNoEmptyCase(p, docs_and_scores) ==
    IF p.response_format = "json" THEN SearchJson(p, docs_and_scores)
    ELSE SearchMarkdown(p, docs_and_scores)

\* if not docs_and_scores: ... ; JSON or markdown otherwise
SearchResult(p, docs_and_scores) ==
    IF docs_and_scores = <<>> THEN NoResults(p.query)
    ELSE IF p.response_format = "json" THEN SearchJson(p, docs_and_scores)
    ELSE SearchMarkdown(p, docs_and_scores)

SearchStart(c) ==
    /\ Arrives(c)
    /\ \E args \in SearchRequests :
          calls' = [calls EXCEPT ![c] =
              IF SushiSearchInputValid(args)
              THEN Accepted("sushi_semantic_search", args, SushiSearchInput(args),
                            "progress_0_2")
              ELSE Rejected("sushi_semantic_search", args)]
    /\ UNCHANGED <<store, lifespan_context, chains, err, classified>>

\* The first notification is through: the tool searches, filters and suspends on
\* the last notification.
SearchRetrieve(c) ==
    /\ calls[c].tool = "sushi_semantic_search" /\ calls[c].pc = "progress_0_2"
    /\ LET p == calls[c].params IN
       \E sent \in ReportProgress, found \in SimilaritySearchWithRelevanceScores(p.k) :
          calls' = [calls EXCEPT ![c] =
              IF ~sent.ok THEN Escape(@, sent.exc)
              ELSE IF ~found.ok
              THEN Except([@ EXCEPT !.retrievals = <<p.k>>], found.exc)
              ELSE [@ EXCEPT !.retrievals = <<p.k>>,
                             !.docs = Filter(found.value, p.score_threshold),
                             !.pc = "progress_1_0"]]
    /\ UNCHANGED <<store, lifespan_context, chains, err, classified>>

\* The last notification is through (or failed): the tool formats and returns.
SearchReturn(c) ==
    /\ calls[c].tool = "sushi_semantic_search" /\ calls[c].pc = "progress_1_0"
    /\ \E sent \in ReportProgress :
          calls' = [calls EXCEPT ![c] =
              IF ~sent.ok THEN Except(@, sent.exc)
              ELSE Return(@, SearchResult(@.params, @.docs))]
    /\ UNCHANGED <<store, lifespan_context, chains, err, classified>>

-----------------------------------------------------------------------------
(* Tool: sushi_list_topics *)

\* a < b for two strings, by code point
StrLess(a, b) ==
    LET n == IF Len(a) < Len(b) THEN Len(a) ELSE Len(b)
        diff == {i \in 1..n : a[i] # b[i]}
    IN  IF diff = {} THEN Len(a) < Len(b)
        ELSE Ord(a[Min(diff)]) < Ord(b[Min(diff)])

RECURSIVE Sorted(_)
\* sorted(topics)
Sorted(topics) ==
    IF topics = {} THEN <<>>
    ELSE LET least == CHOOSE x \in topics : \A y \in topics \ {x} : StrLess(x, y)
         IN  <<least>> \o Sorted(topics \ {least})

\* meta.get("source") or meta.get("title") or meta.get("topic")
TopicLabel(meta) ==
    IF Truthy(Get(meta, "source", NoneVal)) THEN meta.source
    ELSE IF Truthy(Get(meta, "title", NoneVal)) THEN meta.title
    ELSE Get(meta, "topic", NoneVal)

\* The labels the loop over the stored metadata collects.
Topics(metadatas) ==
    {TopicLabel(metadatas[i]).chars :
        i \in {n \in 1..Len(metadatas) : Truthy(TopicLabel(metadatas[n]))}}

\* sorted(topics)[:params.limit]
Slice(sorted, limit) == IF IsNone(limit) THEN sorted ELSE Prefix(sorted, limit.int)

TopicsJsonCountsReturned(topics, sorted_topics) ==
    Dumps(JObj(<<"total_unique_topics", "returned", "topics">>,
               <<JNum(Len(sorted_topics)), JNum(Len(sorted_topics)),
                 JArr([i \in 1..Len(sorted_topics) |-> JStr(sorted_topics[i])])>>))

TopicsJson(topics, sorted_topics) ==
    Dumps(JObj(<<"total_unique_topics", "returned", "topics">>,
               <<JNum(Cardinality(topics)), JNum(Len(sorted_topics)),
                 JArr([i \in 1..Len(sorted_topics) |-> JStr(sorted_topics[i])])>>))

\* The tool never suspends: the request arrives, is validated and is answered.
ListTopics(c) ==
    /\ Arrives(c)
    /\ \E args \in TopicsRequests, results \in CollectionGet :
          calls' = [calls EXCEPT ![c] =
              IF ~ListTopicsInputValid(args) THEN Rejected("sushi_list_topics", args)
              ELSE LET call == Accepted("sushi_list_topics", args, ListTopicsInput(args),
                                        "running")
                   IN  IF ~results.ok THEN Except(call, results.exc)
                       ELSE IF \E i \in 1..Len(results.value) : IsNone(results.value[i])
                       THEN Except(call, NoneTypeError)
                       ELSE Return(call,
                              TopicsJson(Topics(results.value),
                                  Slice(Sorted(Topics(results.value)), call.params.limit)))]
    /\ UNCHANGED <<store, lifespan_context, chains, err, classified>>

-----------------------------------------------------------------------------
(* Resource: sushi://knowledge-base/stats *)

CHROMA_HOST == <<"l","o","c","a","l","h","o","s","t">>
CHROMA_PORT == 8000

\* The names bound in the module's namespace: its imports, constants, classes and
\* functions.  "import chromadb" is a statement of app_lifespan's body and binds
\* the name in that function's local namespace only.
ModuleGlobals ==
    {"json", "os", "argparse", "asynccontextmanager", "Enum", "Optional",
     "BaseModel", "Field", "ConfigDict", "FastMCP", "Context",
     "OpenAIEmbeddings", "ChatOpenAI", "Chroma", "ChatPromptTemplate",
     "RunnablePassthrough", "StrOutputParser",
     "CHROMA_HOST", "CHROMA_PORT", "CHROMA_COLLECTION", "OPENAI_MODEL",
     "EMBEDDING_MODEL", "DEFAULT_K_DOCS", "MAX_K_DOCS", "RAG_SYSTEM_PROMPT",
     "_format_docs", "_build_chain", "ResponseFormat", "_format_sources",
     "_handle_error", "app_lifespan", "mcp", "SushiQueryInput", "sushi_rag_query",
     "SushiSearchInput", "sushi_semantic_search", "ListTopicsInput",
     "sushi_list_topics", "get_kb_stats"}

LifespanLocals == {"app", "chromadb", "embeddings", "http_client", "vectorstore", "llm",
                   "qa_chain"}

\* vectorstore._collection.count() on the resource's own handle
CollectionCount ==
    {[ok |-> TRUE, count |-> Len(store), exc |-> NoException],
     [ok |-> FALSE, count |-> 0, exc |-> RetrievalError]}

ErrorJson(e) == Dumps(JObj(<<"error">>, <<JStr(e.msg)>>))

StatsJson(count) ==
    Dumps(JObj(<<"collection", "chroma_host", "chroma_port", "document_chunks">>,
               <<JStr(CHROMA_COLLECTION), JStr(CHROMA_HOST), JNum(CHROMA_PORT),
                 JNum(count)>>))

\* A read of the resource: it never suspends.
GetKbStats(c) ==
    /\ Arrives(c)
    /\ \E counted \in CollectionCount :
          calls' = [calls EXCEPT ![c] =
              LET call == Accepted("get_kb_stats", NoArgs, NoArgs, "running")
              IN  IF "chromadb" \notin ModuleGlobals
                  THEN [Return(call, ErrorJson(NameError)) EXCEPT !.caught = NameError]
                  ELSE IF ~counted.ok
                  THEN [Return(call, ErrorJson(counted.exc)) EXCEPT !.caught = counted.exc]
                  ELSE Return(call, StatsJson(counted.count))]
    /\ UNCHANGED <<store, lifespan_context, chains, err, classified>>

-----------------------------------------------------------------------------
(* The server *)

Next ==
    \/ \E c \in 1..MaxCalls : QueryStart(c)
    \/ \E c \in 1..MaxCalls : QueryBuild(c)
    \/ \E c \in 1..MaxCalls : QueryGenerate(c)
    \/ \E c \in 1..MaxCalls : QueryFetchSources(c)
    \/ \E c \in 1..MaxCalls : QueryReturn(c)
    \/ \E c \in 1..MaxCalls : SearchStart(c)
    \/ \E c \in 1..MaxCalls : SearchRetrieve(c)
    \/ \E c \in 1..MaxCalls : SearchReturn(c)
    \/ \E c \in 1..MaxCalls : ListTopics(c)
    \/ \E c \in 1..MaxCalls : GetKbStats(c)

Spec == Init /\ [][Next]_vars

\* The server under questions only.
NextQuery ==
    \/ \E c \in 1..MaxCalls : QueryStart(c)
    \/ \E c \in 1..MaxCalls : QueryBuild(c)
    \/ \E c \in 1..MaxCalls : QueryGenerate(c)
    \/ \E c \in 1..MaxCalls : QueryFetchSources(c)
    \/ \E c \in 1..MaxCalls : QueryReturn(c)

SpecQuery == Init /\ [][NextQuery]_vars

\* The server under searches only.
NextSearch ==
    \/ \E c \in 1..MaxCalls : SearchStart(c)
    \/ \E c \in 1..MaxCalls : SearchRetrieve(c)
    \/ \E c \in 1..MaxCalls : SearchReturn(c)

SpecSearch == Init /\ [][NextSearch]_vars

\* The server under listings of the topics and reads of the statistics.
NextTopics ==
    \/ \E c \in 1..MaxCalls : ListTopics(c)
    \/ \E c \in 1..MaxCalls : GetKbStats(c)

SpecTopics == Init /\ [][NextTopics]_vars

\* The server over the populated knowledge base, under questions and searches.
InitPopulated == Init /\ store = PopulatedStore

NextAnswers == NextQuery \/ NextSearch

SpecAnswers == InitPopulated /\ [][NextAnswers]_vars

-----------------------------------------------------------------------------
(* The error classifier on its own: exceptions of every message the fragments *)
(* make, handed to _handle_error.                                             *)

Fragments ==
    {OPENAI_API_KEY, Lower(OPENAI_API_KEY), DoesNotExist, <<"D","o","e","s"," ","N","o","t"," ","E","x","i","s","t">>,
     <<"N","O"," ","S","U","C","H">>, <<"n","o">>, <<" ","s","u","c","h">>, <<"t","i","m","e","d"," ","o","u","t">>}

RECURSIVE Messages(_)
Messages(n) ==
    IF n = 0 THEN {<<>>}
    ELSE Messages(n - 1) \cup {m \o f : m \in Messages(n - 1), f \in Fragments}

Exceptions == {Exc(kind, msg) : kind \in {"ValueError", "NotFoundError"},
                                msg \in Messages(MaxFrags)}

InitClassifier ==
    /\ store = EmptyStore
    /\ chains = <<_build_chain("vectorstore", "llm", K(DEFAULT_K_DOCS))>>
    /\ lifespan_context = [vectorstore |-> "vectorstore", qa_chain |-> 1, llm |-> "llm"]
    /\ calls = [c \in 1..MaxCalls |-> Idle]
    /\ err \in Exceptions
    /\ classified = <<>>

\* return _handle_error(e)
Classify ==
    /\ classified = <<>>
    /\ classified' = _handle_error(err)
    /\ UNCHANGED <<store, lifespan_context, chains, calls, err>>

\* The next exception reaches a handler.
Raise ==
    /\ classified # <<>>
    /\ err' \in Exceptions
    /\ classified' = <<>>
    /\ UNCHANGED <<store, lifespan_context, chains, calls>>

NextClassifier == Classify \/ Raise

SpecClassifier == InitClassifier /\ [][NextClassifier]_vars

-----------------------------------------------------------------------------
(* Properties *)

Slots == 1..MaxCalls

\* The call has ended, with a string or with an exception.
Done(c) == calls[c].pc = "done"

\* The call passed the Schema Layer.
Valid(c) == calls[c].tool # "" /\ calls[c].outcome # "rejected"

\* The call returned a string and no step of it failed.
Answered(c) ==
    Done(c) /\ calls[c].outcome = "returned" /\ calls[c].caught = NoException

\* pat occurs in text, letter for letter.
Occurs(pat, text) ==
    \E i \in 1..Len(text) :
        /\ i + Len(pat) - 1 <= Len(text)
        /\ \A j \in 1..Len(pat) : text[i + j - 1] = pat[j]

\* Two characters are one letter in either case.
SameLetter(a, b) ==
    \/ a = b
    \/ \E n \in 1..Len(UpperCase) : {a, b} = {UpperCase[n], LowerCase[n]}

\* pat occurs in text in any letter case.
OccursAnyCase(pat, text) ==
    \E i \in 1..Len(text) :
        /\ i + Len(pat) - 1 <= Len(text)
        /\ \A j \in 1..Len(pat) : SameLetter(text[i + j - 1], pat[j])

CredentialInstruction ==
    <<[piece |-> "lit",
       lit |-> "Error: OPENAI_API_KEY is not set. Export it before starting the server."]>>

MissingCollectionInstruction ==
    <<[piece |-> "lit",
       lit |-> "Error: ChromaDB collection not found. Run the ingestion script to populate '"],
      [piece |-> "text", chars |-> <<"s","u","s","h","i","_","m","e","n","u">>],
      [piece |-> "lit", lit |-> "' first."]>>

\* C1: whichever step of a tool invocation fails, the failure is caught inside the
\* tool and a classified string is returned: no invocation ends with an exception
\* reaching the transport.
C1_NoFailureEscapes ==
    \A c \in Slots : Done(c) /\ Valid(c) =>
        /\ calls[c].outcome = "returned"
        /\ calls[c].raised = NoException

\* C4: the cached default pipeline is the one built at startup and is never
\* replaced; a call of the default width invokes it and builds nothing; once no call
\* is in flight, the pipelines built are one more than the calls of another width.
C4_OneBuildPerOtherWidth ==
    /\ lifespan_context.qa_chain = 1
    /\ chains[1].k = K(DEFAULT_K_DOCS)
    /\ \A c \in Slots :
          (Valid(c) /\ calls[c].tool = "sushi_rag_query"
           /\ calls[c].params.k_docs = K(DEFAULT_K_DOCS)) =>
              calls[c].built = 0 /\ calls[c].invoked \in {0, 1}
    /\ (\A c \in Slots : calls[c].pc \in {"idle", "done"}) =>
          Len(chains) = 1 + Cardinality({c \in Slots :
              /\ Valid(c) /\ calls[c].tool = "sushi_rag_query"
              /\ calls[c].params.k_docs # K(DEFAULT_K_DOCS)})

\* A retrieval width the Schema Layer is meant to let through.
WidthWithinBounds(v) == ~IsNone(v) /\ v.int >= 1 /\ v.int <= 10

\* C5: no pipeline is built and no retrieval is run with a width that is not an
\* integer in [1, 10]: such a request is rejected before.
C5_WidthsWithinBounds ==
    /\ \A i \in 1..Len(chains) : WidthWithinBounds(chains[i].k)
    /\ \A c \in Slots : \A i \in 1..Len(calls[c].retrievals) :
          WidthWithinBounds(calls[c].retrievals[i])

\* C6: unless the vector store fails it, a read of the stats resource returns a JSON
\* object with the keys collection, host, port and document_chunks, the last being
\* the size of the collection.
C6_StatsReport ==
    \A c \in Slots :
        (Done(c) /\ calls[c].tool = "get_kb_stats" /\ calls[c].caught # RetrievalError) =>
            LET r == Loads(calls[c].result) IN
            /\ r.ok
            /\ r.val.j = "object"
            /\ r.val.keys = <<"collection", "host", "port", "document_chunks">>
            /\ r.val.vals[4] = JNum(Len(store))

\* C7: _handle_error classifies in a fixed order: a message holding OPENAI_API_KEY
\* gives the credential instruction, whatever else it holds; otherwise a message
\* holding "does not exist" or "no such" in any letter case gives the
\* missing-collection instruction; every other gives "Error: <kind>: <message>".
C7_ClassificationOrder ==
    classified # <<>> =>
        IF Occurs(OPENAI_API_KEY, err.msg)
        THEN classified = CredentialInstruction
        ELSE IF OccursAnyCase(<<"d","o","e","s"," ","n","o","t"," ","e","x","i","s","t">>, err.msg)
                \/ OccursAnyCase(<<"n","o"," ","s","u","c","h">>, err.msg)
        THEN classified = MissingCollectionInstruction
        ELSE classified = <<[piece |-> "lit", lit |-> "Error: "],
                            [piece |-> "lit", lit |-> err.kind],
                            [piece |-> "lit", lit |-> ": "],
                            [piece |-> "text", chars |-> err.msg]>>

\* A message naming both the credential and a missing thing was classified by the
\* credential.
C7_Witness ==
    /\ classified = CredentialInstruction
    /\ Occurs(OPENAI_API_KEY, err.msg)
    /\ OccursAnyCase(<<"d","o","e","s"," ","n","o","t"," ","e","x","i","s","t">>, err.msg)

\* The n-th smallest of a set of numbers.
Nth(A, n) == CHOOSE x \in A : Cardinality({y \in A : y < x}) = n - 1

\* The chunks a search of these parameters is to return: those among the k best
\* whose score is not strictly below the threshold, when there is one.
Kept(p) ==
    {i \in 1..Len(store) :
        /\ i <= p.k.int
        /\ IsNone(p.score_threshold) \/ ~(store[i].score < p.score_threshold.float)}

NoResultsMessage(query) ==
    <<[piece |-> "lit", lit |-> "No results found for query: '"],
      [piece |-> "text", chars |-> query],
      [piece |-> "lit", lit |-> "'"]>>

IsSearch(c) == calls[c].tool = "sushi_semantic_search"

\* The contents a search result shows, in order: the content member of each
\* element of the JSON array, or the text under each markdown score line.
ShownContents(result) ==
    IF Loads(result).ok
    THEN LET items == Loads(result).val.items
         IN  [n \in 1..Len(items) |-> items[n].vals[3].chars]
    ELSE LET at == {n \in 1..Len(result) : result[n].piece = "score"}
         IN  [n \in 1..Cardinality(at) |-> result[Nth(at, n) + 2].chars]

\* C3: a search whose filtered result set is empty returns the literal no-results
\* message naming the query, in markdown and in JSON alike.
C3_EmptyResultMessage ==
    \A c \in Slots :
        (Answered(c) /\ IsSearch(c) /\ Kept(calls[c].params) = {}) =>
            calls[c].result = NoResultsMessage(calls[c].params.query)

\* Over a store that returned chunks, a JSON search and a markdown search both had
\* every chunk filtered out and both returned the message.
C3_Witness ==
    /\ store # <<>>
    /\ \E c1, c2 \in Slots :
          /\ Answered(c1) /\ IsSearch(c1) /\ calls[c1].params.response_format = "json"
          /\ Answered(c2) /\ IsSearch(c2) /\ calls[c2].params.response_format = "markdown"
          /\ Kept(calls[c1].params) = {} /\ Kept(calls[c2].params) = {}
          /\ calls[c1].result = NoResultsMessage(calls[c1].params.query)
          /\ calls[c2].result = NoResultsMessage(calls[c2].params.query)

\* The number of results a search returned.
Returned(c) ==
    IF calls[c].result = NoResultsMessage(calls[c].params.query) THEN 0
    ELSE Len(ShownContents(calls[c].result))

\* C9: a search returns, of the k best chunks, exactly those whose score is not
\* strictly below the threshold (a score equal to it is kept), in the store's
\* order; so it returns at most k, and of two searches of one query and one k the
\* one with the higher threshold returns no more.
C9_ThresholdFilter ==
    /\ \A c \in Slots : (Answered(c) /\ IsSearch(c)) =>
          /\ Returned(c) = Cardinality(Kept(calls[c].params))
          /\ Returned(c) <= calls[c].params.k.int
          /\ \A n \in 1..Returned(c) :
                ShownContents(calls[c].result)[n]
                    = store[Nth(Kept(calls[c].params), n)].page_content
    /\ \A c1, c2 \in Slots :
          (/\ Answered(c1) /\ IsSearch(c1) /\ Answered(c2) /\ IsSearch(c2)
           /\ calls[c1].params.query = calls[c2].params.query
           /\ calls[c1].params.k = calls[c2].params.k
           /\ ~IsNone(calls[c1].params.score_threshold)
           /\ ~IsNone(calls[c2].params.score_threshold)
           /\ calls[c1].params.score_threshold.float
                <= calls[c2].params.score_threshold.float)
          => Returned(c2) <= Returned(c1)

\* Two searches of one query and one k: the lower threshold equals a chunk's score
\* and that chunk is returned; the higher threshold returns fewer.
C9_Witness ==
    \E c1, c2 \in Slots :
        /\ Answered(c1) /\ IsSearch(c1) /\ Answered(c2) /\ IsSearch(c2)
        /\ calls[c1].params.k = calls[c2].params.k
        /\ ~IsNone(calls[c1].params.score_threshold)
        /\ ~IsNone(calls[c2].params.score_threshold)
        /\ calls[c1].params.score_threshold.float < calls[c2].params.score_threshold.float
        /\ \E i \in Kept(calls[c1].params) :
              store[i].score = calls[c1].params.score_threshold.float
        /\ Returned(c2) < Returned(c1)
        /\ Returned(c1) < Len(store)

\* The label of a stored item: the first non-empty of source, title and topic; the
\* empty string when it has none.
LabelOf(meta) ==
    IF "source" \in DOMAIN meta /\ meta.source.chars # <<>> THEN meta.source.chars
    ELSE IF "title" \in DOMAIN meta /\ meta.title.chars # <<>> THEN meta.title.chars
    ELSE IF "topic" \in DOMAIN meta THEN meta.topic.chars
    ELSE <<>>

Labels == {LabelOf(store[i].metadata) : i \in 1..Len(store)} \ {<<>>}

\* a comes before b in lexicographic order.
Before(a, b) ==
    \E i \in 1..Len(b) :
        /\ \A j \in 1..(i - 1) : j <= Len(a) /\ a[j] = b[j]
        /\ i > Len(a) \/ (i - 1 < Len(a) /\ Ord(a[i]) < Ord(b[i]))

IsTopics(c) == calls[c].tool = "sushi_list_topics"

\* The members of the report a listing returned.
Report(c) ==
    LET r == Loads(calls[c].result) IN
    [ok |-> r.ok /\ r.val.j = "object"
            /\ r.val.keys = <<"total_unique_topics", "returned", "topics">>,
     total |-> r.val.vals[1].num,
     returned |-> r.val.vals[2].num,
     topics |-> [n \in 1..Len(r.val.vals[3].items) |-> r.val.vals[3].items[n].chars]]

IsQuery(c) == calls[c].tool = "sushi_rag_query"

AsksJson(c) == calls[c].params.response_format = "json"

\* The text parses as a JSON object of a question, an answer and an array of
\* sources.
IsQueryObject(text) ==
    LET r == Loads(text) IN
    /\ r.ok
    /\ r.val.j = "object"
    /\ Len(r.val.keys) = 3
    /\ {r.val.keys[n] : n \in 1..3} = {"question", "answer", "sources"}
    /\ \A n \in 1..3 : r.val.keys[n] = "sources" => r.val.vals[n].j = "array"

\* The text parses as a JSON array of objects of a rank, a score, a content and a
\* metadata.
IsSearchArray(text) ==
    LET r == Loads(text) IN
    /\ r.ok
    /\ r.val.j = "array"
    /\ \A n \in 1..Len(r.val.items) :
          /\ r.val.items[n].j = "object"
          /\ Len(r.val.items[n].keys) = 4
          /\ {r.val.items[n].keys[m] : m \in 1..4}
                = {"rank", "score", "content", "metadata"}

\* C2 as stated: whenever JSON is requested, the string a query or a search
\* returns parses as JSON, an object for the query and an array for the search.
C2_JsonWheneverRequested ==
    \A c \in Slots :
        (Done(c) /\ Valid(c) /\ calls[c].outcome = "returned" /\ AsksJson(c)) =>
            /\ IsQuery(c) => IsQueryObject(calls[c].result)
            /\ IsSearch(c) => IsSearchArray(calls[c].result)

\* C2: when JSON is requested and no step of the call fails, the string a query
\* returns parses as a JSON object of question, answer and sources, and the string
\* a search returns parses as a JSON array of result objects provided that its
\* filtered result set is not empty; the no-results message of a search and the
\* classified message of a call a step of which failed are plain text, not JSON.
C2_JsonWhenAnswered ==
    \A c \in Slots :
        (Done(c) /\ Valid(c) /\ calls[c].outcome = "returned" /\ AsksJson(c)
         /\ (IsQuery(c) \/ IsSearch(c))) =>
            IF ~Answered(c) THEN ~Loads(calls[c].result).ok
            ELSE IF IsQuery(c) THEN IsQueryObject(calls[c].result)
            ELSE IF Kept(calls[c].params) # {} THEN IsSearchArray(calls[c].result)
            ELSE ~Loads(calls[c].result).ok

\* A JSON query returned an object and a JSON search with results an array.
C2_Witness ==
    \E c1, c2 \in Slots :
        /\ Answered(c1) /\ IsQuery(c1) /\ AsksJson(c1)
        /\ IsQueryObject(calls[c1].result)
        /\ Answered(c2) /\ IsSearch(c2) /\ AsksJson(c2)
        /\ Kept(calls[c2].params) # {}
        /\ IsSearchArray(calls[c2].result)
        /\ Len(Loads(calls[c2].result).val.items) = Cardinality(Kept(calls[c2].params))

\* The content a markdown answer shows for its n-th source, and what follows it:
\* the two pieces after the n-th source heading.
SourcesAt(result) == {m \in 1..Len(result) : result[m] = [piece |-> "lit", lit |-> "\n**"]}

Heading(result, n) ==
    LET from == Nth(SourcesAt(result), n)
    IN  Nth({m \in from..Len(result) : result[m] = [piece |-> "lit", lit |-> "**\n"]}, 1)

First(text, n) == [j \in 1..n |-> text[j]]

ShowsSources(c) ==
    /\ IsQuery(c)
    /\ calls[c].params.response_format = "markdown"
    /\ calls[c].params.include_sources = [bool |-> TRUE]

\* The sources of a query: the k_docs best chunks.
Sources(p) == {i \in 1..Len(store) : i <= p.k_docs.int}

\* C10: a markdown answer shows of each source longer than 300 characters its
\* first 300 characters followed by an ellipsis; a markdown search result shows
\* the whole content of each result, whatever its length.
C10_SourceContentCut ==
    /\ \A c \in Slots : (Answered(c) /\ ShowsSources(c)) =>
          \A i \in Sources(calls[c].params) :
              Len(store[i].page_content) > 300 =>
                  LET at == Heading(calls[c].result, i) IN
                  /\ calls[c].result[at + 1]
                        = [piece |-> "text", chars |-> First(store[i].page_content, 300)]
                  /\ calls[c].result[at + 2] = [piece |-> "lit", lit |-> "[U+2026]"]
    /\ \A c \in Slots :
          (Answered(c) /\ IsSearch(c) /\ calls[c].params.response_format = "markdown") =>
              \A n \in 1..Returned(c) :
                  LET shown == ShownContents(calls[c].result)[n]
                      whole == store[Nth(Kept(calls[c].params), n)].page_content
                  IN  Len(shown) = Len(whole) /\ shown = whole

\* A markdown answer and a markdown search both showed a chunk of more than 300
\* characters.
C10_Witness ==
    \E c1, c2 \in Slots :
        /\ Answered(c1) /\ ShowsSources(c1)
        /\ \E i \in Sources(calls[c1].params) : Len(store[i].page_content) > 300
        /\ Answered(c2) /\ IsSearch(c2) /\ calls[c2].params.response_format = "markdown"
        /\ \E n \in 1..Returned(c2) : Len(ShownContents(calls[c2].result)[n]) > 300

====
